---- MODULE Spec2Model ----
(***************************************************************************)
(* Model of the repository-analytics pipeline:                             *)
(*   - pages/03_Repo_analytics.py : get_api_data (polling fetcher behind   *)
(*     st.cache_data), the display_* functions and app;                    *)
(*   - 01_Repository_analytics.py : load_data and main (CSV dashboard).    *)
(*   - step-by-step/step_7.py : the chat history of the docs chat.         *)
(* Specifications: Spec (live-API page), SpecRerun (live-API page with     *)
(* reruns and two repositories), SpecCsv (CSV dashboard), SpecChat (chat). *)
(***************************************************************************)
EXTENDS Integers, Sequences, FiniteSets, TLC

VARIABLES
    \* ---- live-API page (pages/03_Repo_analytics.py) ----
    apc,        \* position of app: idle, meta, views, clones, commit, codefreq, contrib, details, done, aborted
    runs,       \* number of script runs started by pressing "Fetch data"
    cache,      \* st.cache_data store of get_api_data, keyed by url
    url,        \* url argument of the current get_api_data call
    fpc,        \* position inside get_api_data: none, loop, sleep, returned, raised
    attempt,    \* loop index of "for _ in range(retries)"
    hist,       \* status codes received by the current call, in order
    resp,       \* response.json() of the latest response with status 200 of the current call
    waits,      \* number of time.sleep(10) calls of the current call
    ret,        \* value returned by the current call
    fmsg,       \* message the current call passed to st.error ("" if none)
    errs,       \* messages shown by st.error during the current script run
    viewsData,  \* local views_data of app
    rendered,   \* <<panel, result>> for every panel of the current run whose display code ran to its end
    exc,        \* exception that ended the current script run ("" if none)
    failedAt,   \* panel whose code raised exc ("" if none)
    repo,       \* owner/repo of the sidebar as read by the current script run
    pending,    \* owner/repo of a "Fetch data" pressed while the script runs ("" if none)
    pressedIn,  \* position inside get_api_data at the moment of that press
    dropped,    \* value the stopped run's get_api_data call had returned when the run was stopped
    origin,     \* repository whose upstream produced ret ("" while no value)
    viewsFrom,  \* repository whose upstream produced views_data
    \* ---- CSV dashboard (01_Repository_analytics.py) ----
    mpc,        \* position of main
    frame,      \* DataFrame currently held by the active tab
    rawShown,   \* deletions column of the frame passed to st.dataframe ("Show raw data")
    window,     \* (start_week, end_week) returned by st.slider
    filtered,   \* filtered_data of tab1
    areaChart,  \* deletions column handed to st.area_chart
    cumAdd,     \* cumulative_additions column handed to st.scatter_chart
    cumDel,     \* cumulative_deletions column handed to st.scatter_chart
    metric,     \* weekly_change as formatted for col3.metric("Week-over-Week Change", ...)
    userList,   \* user_list of tab3
    userData,   \* filtered_data of tab3 (rows of the selected user inside the date range)
    mmsgs,      \* messages load_data passed to st.error in this run
    mrendered,  \* tabs of main fully rendered in this run
    mexc,       \* exception that ended main ("" if none)
    mfailed,    \* tab whose code raised mexc ("" if none)
    \* ---- docs chat (step-by-step/step_7.py) ----
    cpc,         \* position of the chat script: idle (no run), chatting (inside chat_engine.chat)
    hasMessages, \* "messages" in st.session_state.keys()
    messages,    \* st.session_state.messages
    chatExc      \* exception that ended the latest script run ("" if none)

userVars == <<repo, pending, pressedIn, dropped>>
apiVars == <<apc, runs, cache, url, fpc, attempt, hist, resp, waits, ret, fmsg, errs,
             viewsData, rendered, exc, failedAt, origin, viewsFrom, userVars>>
csvVars == <<mpc, frame, rawShown, window, filtered, areaChart, cumAdd, cumDel,
             metric, userList, userData, mmsgs, mrendered, mexc, mfailed>>
chatVars == <<cpc, hasMessages, messages, chatExc>>
vars == <<apiVars, csvVars, chatVars>>

----------------------------------------------------------------------------
(* Bounds *)
MaxChat == 5        \* longest chat history
MaxRuns == 2        \* script runs of the live-API page
MaxRows == 2        \* rows of a CSV file
MaxVal  == 2        \* largest additions / |deletions| / total in a row

(* Program constants *)
DefaultRetries == 3

----------------------------------------------------------------------------
(* get_api_data and its callers *)

OtherStatuses == {404, 500}
Statuses == {200, 202, 403} \cup OtherStatuses

\* shapes of a JSON body delivered with a 200
Payloads == {"ok", "empty", "malformed"}

PermissionDeniedValue == "Permission Denied"
NoneValue == "None"

MsgPermission == "Permission Denied: probably not your repo."
MsgNotReady == "Request failed or data not ready after retries."
MsgEnsure == "Please ensure the repository exists and your token has the correct permissions."
MsgFailed(code) == IF code = 404 THEN "Failed to fetch data: 404"
                   ELSE "Failed to fetch data: 500"

Endpoints == {"repo", "views", "clones", "commit_activity", "code_frequency", "contributors"}

\* the sidebar's default owner/repo, and another repository the user can type
DefaultRepo == "octocat/Hello-World"
OtherRepo == "other/repo"
Repos == {DefaultRepo, OtherRepo}

\* f"https://api.github.com/repos/{owner}/{repo}/..." : the repository and the endpoint
UrlOf(r, e) == <<r, e>>

Urls == {UrlOf(r, e) : r \in Repos, e \in Endpoints}

\* CacheKey that leaves the repository out of the key
CacheKey_EndpointOnly(u) == UrlOf(DefaultRepo, u[2])

\* st.cache_data keys an entry by the arguments of the call: url, headers, retries
CacheKey(u) == u

\* Python truthiness of a value get_api_data can return
Truthy(v) == v \in {"ok", "malformed", PermissionDeniedValue}

Miss == [ret |-> "unset", msg |-> "", from |-> ""]

FailureKinds == {"NotReady", "PermissionDenied", "UpstreamError"}

\* what get_api_data returns on each of its failure exits
FailureValue(kind) ==
    CASE kind = "PermissionDenied" -> PermissionDeniedValue
      [] kind = "UpstreamError" -> NoneValue
      [] kind = "NotReady" -> NoneValue

\* The panel of app that a stage belongs to
PanelOf(stage) ==
    CASE stage = "meta" -> "access"
      [] stage = "views" -> "views"
      [] stage = "clones" -> "clones"
      [] stage = "commit" -> "commit_activity"
      [] stage = "codefreq" -> "code_frequency"
      [] stage = "contrib" -> "contributors"
      [] OTHER -> "engagement"

\* for _ in range(retries): the call enters the loop, or the cache answers.
\* st.cache_data stores whatever the function returned, and replays the
\* st.error it made, for the same (url, headers, retries).
CallFetch(u, shown) ==
    /\ url' = u
    /\ attempt' = 0
    /\ hist' = <<>>
    /\ resp' = "unset"
    /\ waits' = 0
    /\ IF cache[CacheKey(u)] # Miss
         THEN /\ fpc' = "returned"
              /\ ret' = cache[CacheKey(u)].ret
              /\ origin' = cache[CacheKey(u)].from
              /\ fmsg' = cache[CacheKey(u)].msg
              /\ errs' = IF cache[CacheKey(u)].msg = "" THEN shown
                         ELSE shown \cup {cache[CacheKey(u)].msg}
         ELSE /\ fpc' = "loop"
              /\ ret' = "unset"
              /\ origin' = ""
              /\ fmsg' = ""
              /\ errs' = shown
    /\ UNCHANGED cache

\* return <value> after st.error(<msg>): the result is stored by st.cache_data
ReturnWith(v, m) ==
    /\ fpc' = "returned"
    /\ ret' = v
    /\ origin' = url[1]
    /\ fmsg' = m
    /\ errs' = IF m = "" THEN errs ELSE errs \cup {m}
    /\ cache' = [cache EXCEPT ![CacheKey(url)] = [ret |-> v, msg |-> m, from |-> url[1]]]

\* Respond with the sleep placed ahead of the status check
Respond_SleepFirst(status, body) ==
    /\ hist' = Append(hist, status)
    /\ resp' = IF status = 200 THEN body ELSE resp
    /\ CASE status = 200 ->
              ReturnWith(body, "") /\ waits' = waits + 1 /\ UNCHANGED attempt
         [] status = 202 ->
              /\ fpc' = "sleep"
              /\ UNCHANGED <<attempt, waits, ret, origin, fmsg, errs, cache>>
         [] status = 403 ->
              ReturnWith(FailureValue("PermissionDenied"), MsgPermission) /\ UNCHANGED <<attempt, waits>>
         [] OTHER ->
              ReturnWith(FailureValue("UpstreamError"), MsgFailed(status)) /\ UNCHANGED <<attempt, waits>>

\* Respond with 403 retried like 202
Respond_Retry403(status, body) ==
    /\ hist' = Append(hist, status)
    /\ resp' = IF status = 200 THEN body ELSE resp
    /\ CASE status = 200 ->
              ReturnWith(body, "") /\ UNCHANGED <<attempt, waits>>
         [] status \in {202, 403} ->
              /\ fpc' = "sleep"
              /\ UNCHANGED <<attempt, waits, ret, origin, fmsg, errs, cache>>
         [] OTHER ->
              ReturnWith(FailureValue("UpstreamError"), MsgFailed(status)) /\ UNCHANGED <<attempt, waits>>

\* response = requests.get(url, headers=headers) answered with a status,
\* and the if / elif chain on response.status_code
Respond(status, body) ==
    /\ hist' = Append(hist, status)
    /\ resp' = IF status = 200 THEN body ELSE resp
    /\ CASE status = 200 ->
              ReturnWith(body, "") /\ UNCHANGED <<attempt, waits>>
         [] status = 202 ->
              /\ fpc' = "sleep"
              /\ UNCHANGED <<attempt, waits, ret, origin, fmsg, errs, cache>>
         [] status = 403 ->
              ReturnWith(FailureValue("PermissionDenied"), MsgPermission) /\ UNCHANGED <<attempt, waits>>
         [] OTHER ->
              ReturnWith(FailureValue("UpstreamError"), MsgFailed(status)) /\ UNCHANGED <<attempt, waits>>

\* one iteration of the loop, the upstream answering with a status of S and a body of P
RequestFrom(S, P) ==
    /\ fpc = "loop"
    /\ attempt < DefaultRetries
    /\ \E status \in S : \E body \in P :
          /\ (status # 200 => body = "ok")   \* the body is read only on 200
          /\ Respond(status, body)
    /\ UNCHANGED <<apc, runs, url, viewsData, viewsFrom, rendered, exc, failedAt>>
    /\ UNCHANGED <<csvVars, chatVars>>
    /\ UNCHANGED userVars

Request == RequestFrom(Statuses, Payloads)

\* the upstream of a statistics endpoint: computing (202) or ready (200)
RequestStats == RequestFrom({200, 202}, {"ok"})

\* requests.get raises (connection error, timeout): nothing in get_api_data
\* or app catches it, the script run ends with the exception
TransportFailure ==
    /\ fpc = "loop"
    /\ attempt < DefaultRetries
    /\ fpc' = "raised"
    /\ exc' = "ConnectionError"
    /\ failedAt' = PanelOf(apc)
    /\ apc' = "aborted"
    /\ UNCHANGED <<runs, cache, url, attempt, hist, resp, waits, ret, origin, fmsg, errs, viewsData, viewsFrom, rendered>>
    /\ UNCHANGED <<csvVars, chatVars>>
    /\ UNCHANGED userVars

\* Sleep that does not consume an attempt (a while-loop that forgets its counter)
Sleep_NoAdvance ==
    /\ fpc = "sleep"
    /\ waits' = IF waits < DefaultRetries THEN waits + 1 ELSE waits
    /\ attempt' = attempt
    /\ fpc' = "loop"
    /\ UNCHANGED <<apc, runs, cache, url, hist, resp, ret, origin, fmsg, errs, viewsData, viewsFrom, rendered, exc, failedAt>>
    /\ UNCHANGED <<csvVars, chatVars>>
    /\ UNCHANGED userVars

\* time.sleep(10), then the next iteration of the loop
Sleep ==
    /\ fpc = "sleep"
    /\ waits' = waits + 1
    /\ attempt' = attempt + 1
    /\ fpc' = "loop"
    /\ UNCHANGED <<apc, runs, cache, url, hist, resp, ret, origin, fmsg, errs, viewsData, viewsFrom, rendered, exc, failedAt>>
    /\ UNCHANGED <<csvVars, chatVars>>
    /\ UNCHANGED userVars

\* the loop is exhausted: st.error(...) ; return None
GiveUp ==
    /\ fpc = "loop"
    /\ attempt >= DefaultRetries
    /\ ReturnWith(FailureValue("NotReady"), MsgNotReady)
    /\ UNCHANGED <<apc, runs, url, attempt, hist, resp, waits, viewsData, viewsFrom, rendered, exc, failedAt>>
    /\ UNCHANGED <<csvVars, chatVars>>
    /\ UNCHANGED userVars

----------------------------------------------------------------------------
(* display_* functions: what a panel does with the value it was given.     *)
(* "chart": a chart / metric is drawn; "nothing": the panel stays empty;   *)
(* "nodata": an explicit no-data message; otherwise the exception raised.  *)

\* if views_data and 'views' in views_data: display_traffic_data(...)
TrafficResult(v) ==
    CASE v = "ok" -> "chart"
      [] v = "malformed" -> "KeyError"
      [] OTHER -> "nothing"

\* if data: df = pd.DataFrame(data); df['week'] = ...
FrameResult(v) ==
    CASE v = "ok" -> "chart"
      [] v = "malformed" -> "KeyError"
      [] v = PermissionDeniedValue -> "ValueError"
      [] OTHER -> "nothing"

display_commit_activity(v) == FrameResult(v)

display_code_frequency(v) == FrameResult(v)

display_contributor_commits(v) ==
    CASE v = "ok" -> "chart"
      [] v = "malformed" -> "KeyError"
      [] v = PermissionDeniedValue -> "TypeError"
      [] OTHER -> "nodata"

\* if repo_details_data: col1.metric("Forks", repo_details_data['forks_count'])
EngagementResult(v) ==
    CASE v = "ok" -> "chart"
      [] v = "malformed" -> "KeyError"
      [] v = PermissionDeniedValue -> "TypeError"
      [] OTHER -> "nothing"

IsException(r) == r \in {"KeyError", "ValueError", "TypeError"}

\* the script run ends with an uncaught exception raised in panel p
AbortRun(p, e) ==
    /\ apc' = "aborted"
    /\ exc' = e
    /\ failedAt' = p
    /\ UNCHANGED <<cache, url, fpc, attempt, hist, resp, waits, ret, origin, fmsg, errs>>

\* the display code of panel p ran to its end with result r
MarkFrom(p, r, o) == {<<p, r, o>>}
Mark(p, r) == MarkFrom(p, r, origin)

----------------------------------------------------------------------------
(* app *)

\* a script run starts with r in the sidebar and submitted = True:
\* the page is drawn afresh, repo_data = get_api_data(repo_url, headers)
StartRun(r) ==
    /\ runs' = runs + 1
    /\ repo' = r
    /\ apc' = "meta"
    /\ rendered' = {}
    /\ exc' = ""
    /\ failedAt' = ""
    /\ viewsData' = "unset"
    /\ viewsFrom' = ""
    /\ CallFetch(UrlOf(r, "repo"), {})
    /\ UNCHANGED <<csvVars, chatVars>>

\* submitted = st.button("Fetch data") pressed while no script runs
SubmitFor(r) ==
    /\ apc \in {"idle", "done", "aborted"}
    /\ pending = ""
    /\ runs < MaxRuns
    /\ StartRun(r)
    /\ UNCHANGED <<pending, pressedIn, dropped>>

\* "Fetch data" with the sidebar left at its default repository
Submit == SubmitFor(DefaultRepo)

\* if not repo_data: st.error(...); return    else: views_data = get_api_data(views_url, ...)
AfterMeta ==
    /\ apc = "meta" /\ fpc = "returned"
    /\ IF ~Truthy(ret)
         THEN /\ apc' = "done"
              /\ errs' = errs \cup {MsgEnsure}
              /\ UNCHANGED <<cache, url, fpc, attempt, hist, resp, waits, ret, origin, fmsg>>
         ELSE /\ apc' = "views"
              /\ CallFetch(UrlOf(repo, "views"), errs)
    /\ UNCHANGED <<runs, viewsData, viewsFrom, rendered, exc, failedAt>>
    /\ UNCHANGED <<csvVars, chatVars>>
    /\ UNCHANGED userVars

\* clones_data = get_api_data(clones_url, headers)
AfterViews ==
    /\ apc = "views" /\ fpc = "returned"
    /\ viewsData' = ret
    /\ viewsFrom' = origin
    /\ apc' = "clones"
    /\ CallFetch(UrlOf(repo, "clones"), errs)
    /\ UNCHANGED <<runs, rendered, exc, failedAt>>
    /\ UNCHANGED <<csvVars, chatVars>>
    /\ UNCHANGED userVars

\* the two display_traffic_data calls of tab1, then display_commit_activity's fetch
AfterClones ==
    /\ apc = "clones" /\ fpc = "returned"
    /\ LET rv == TrafficResult(viewsData)
           rc == TrafficResult(ret)
       IN  IF IsException(rv)
             THEN AbortRun("views", rv) /\ UNCHANGED rendered
           ELSE IF IsException(rc)
             THEN AbortRun("clones", rc) /\ rendered' = rendered \cup MarkFrom("views", rv, viewsFrom)
           ELSE /\ rendered' = rendered \cup MarkFrom("views", rv, viewsFrom) \cup Mark("clones", rc)
                /\ apc' = "commit"
                /\ CallFetch(UrlOf(repo, "commit_activity"), errs)
                /\ UNCHANGED <<exc, failedAt>>
    /\ UNCHANGED <<runs, viewsData, viewsFrom>>
    /\ UNCHANGED <<csvVars, chatVars>>
    /\ UNCHANGED userVars

\* rest of display_commit_activity, then display_code_frequency's fetch
AfterCommit ==
    /\ apc = "commit" /\ fpc = "returned"
    /\ LET r == display_commit_activity(ret)
       IN  IF IsException(r)
             THEN AbortRun("commit_activity", r) /\ UNCHANGED rendered
             ELSE /\ rendered' = rendered \cup Mark("commit_activity", r)
                  /\ apc' = "codefreq"
                  /\ CallFetch(UrlOf(repo, "code_frequency"), errs)
                  /\ UNCHANGED <<exc, failedAt>>
    /\ UNCHANGED <<runs, viewsData, viewsFrom>>
    /\ UNCHANGED <<csvVars, chatVars>>
    /\ UNCHANGED userVars

\* rest of display_code_frequency, then display_contributor_commits' fetch
AfterCodeFreq ==
    /\ apc = "codefreq" /\ fpc = "returned"
    /\ LET r == display_code_frequency(ret)
       IN  IF IsException(r)
             THEN AbortRun("code_frequency", r) /\ UNCHANGED rendered
             ELSE /\ rendered' = rendered \cup Mark("code_frequency", r)
                  /\ apc' = "contrib"
                  /\ CallFetch(UrlOf(repo, "contributors"), errs)
                  /\ UNCHANGED <<exc, failedAt>>
    /\ UNCHANGED <<runs, viewsData, viewsFrom>>
    /\ UNCHANGED <<csvVars, chatVars>>
    /\ UNCHANGED userVars

\* rest of display_contributor_commits, then tab3: get_api_data(repo_details_url, headers)
AfterContrib ==
    /\ apc = "contrib" /\ fpc = "returned"
    /\ LET r == display_contributor_commits(ret)
       IN  IF IsException(r)
             THEN AbortRun("contributors", r) /\ UNCHANGED rendered
             ELSE /\ rendered' = rendered \cup Mark("contributors", r)
                  /\ apc' = "details"
                  /\ CallFetch(UrlOf(repo, "repo"), errs)
                  /\ UNCHANGED <<exc, failedAt>>
    /\ UNCHANGED <<runs, viewsData, viewsFrom>>
    /\ UNCHANGED <<csvVars, chatVars>>
    /\ UNCHANGED userVars

\* if repo_details_data: the three col.metric calls; end of app
AfterDetails ==
    /\ apc = "details" /\ fpc = "returned"
    /\ LET r == EngagementResult(ret)
       IN  IF IsException(r)
             THEN AbortRun("engagement", r) /\ UNCHANGED rendered
             ELSE /\ rendered' = rendered \cup Mark("engagement", r)
                  /\ apc' = "done"
                  /\ UNCHANGED <<cache, url, fpc, attempt, hist, resp, waits, ret, origin, fmsg, errs, exc, failedAt>>
    /\ UNCHANGED <<runs, viewsData, viewsFrom>>
    /\ UNCHANGED <<csvVars, chatVars>>
    /\ UNCHANGED userVars

----------------------------------------------------------------------------
(* Reruns: Streamlit runs one script at a time per session. A widget event *)
(* that arrives while the script runs is queued; the running script is     *)
(* stopped at one of its next st.* calls and the script starts again with  *)
(* the new widget values, drawing the page afresh.                         *)

Running == apc \in {"meta", "views", "clones", "commit", "codefreq", "contrib", "details"}

\* the user puts r in the sidebar and presses "Fetch data" while the script runs
Interact ==
    /\ Running
    /\ pending = ""
    /\ runs < MaxRuns
    /\ \E r \in Repos : pending' = r
    /\ pressedIn' = fpc
    /\ UNCHANGED <<apc, runs, cache, url, fpc, attempt, hist, resp, waits, ret, origin, fmsg, errs,
                   viewsData, viewsFrom, rendered, exc, failedAt, repo, dropped>>
    /\ UNCHANGED <<csvVars, chatVars>>

\* the running script is stopped, whatever its get_api_data call returned is
\* dropped with it, and the script runs again for the pending repository
Restart ==
    /\ pending # ""
    /\ dropped' = IF fpc = "returned" THEN ret ELSE "unset"
    /\ pending' = ""
    /\ StartRun(pending)
    /\ UNCHANGED pressedIn

\* "Fetch data" with any repository in the sidebar
SubmitAny == \E r \in Repos : SubmitFor(r)

ApiInit ==
    /\ apc = "idle"
    /\ runs = 0
    /\ cache = [u \in Urls |-> Miss]
    /\ url = UrlOf(DefaultRepo, "repo")
    /\ fpc = "none"
    /\ attempt = 0
    /\ hist = <<>>
    /\ resp = "unset"
    /\ waits = 0
    /\ ret = "unset"
    /\ fmsg = ""
    /\ errs = {}
    /\ viewsData = "unset"
    /\ rendered = {}
    /\ exc = ""
    /\ failedAt = ""
    /\ repo = DefaultRepo
    /\ pending = ""
    /\ pressedIn = ""
    /\ dropped = "unset"
    /\ origin = ""
    /\ viewsFrom = ""

CsvIdle ==
    /\ mpc = "start"
    /\ frame = [cols |-> {}, rows |-> <<>>]
    /\ rawShown = <<>>
    /\ window = <<0, 0>>
    /\ filtered = <<>>
    /\ areaChart = <<>>
    /\ cumAdd = <<>>
    /\ cumDel = <<>>
    /\ metric = [kind |-> "unset", cents |-> 0]
    /\ userList = <<>>
    /\ userData = <<>>
    /\ mmsgs = {}
    /\ mrendered = {}
    /\ mexc = ""
    /\ mfailed = ""

ChatInit ==
    /\ cpc = "idle"
    /\ hasMessages = FALSE
    /\ messages = <<>>
    /\ chatExc = ""

Init == ApiInit /\ CsvIdle /\ ChatInit

Next ==
    \/ Submit
    \/ Request
    \/ TransportFailure
    \/ Sleep
    \/ GiveUp
    \/ AfterMeta
    \/ AfterViews
    \/ AfterClones
    \/ AfterCommit
    \/ AfterCodeFreq
    \/ AfterContrib
    \/ AfterDetails

Spec == Init /\ [][Next]_vars

\* the page with the repository fields in use and reruns during a run;
\* every endpoint answers like a statistics endpoint
NextRerun ==
    \/ SubmitAny
    \/ Interact
    \/ Restart
    \/ RequestStats
    \/ TransportFailure
    \/ Sleep
    \/ GiveUp
    \/ AfterMeta
    \/ AfterViews
    \/ AfterClones
    \/ AfterCommit
    \/ AfterCodeFreq
    \/ AfterContrib
    \/ AfterDetails

SpecRerun == Init /\ [][NextRerun]_vars

----------------------------------------------------------------------------
(* CSV dashboard: load_data and main *)

SecondsPerDay == 24 * 60 * 60
WeekSeconds == 7 * SecondsPerDay
\* epoch seconds of the first week of a file (not at midnight)
FirstWeek == 19675 * SecondsPerDay + 80000
WeekAt(i) == FirstWeek + (i - 1) * WeekSeconds

\* pd.to_datetime(col, unit="s").dt.date : the calendar day, in days since 1970-01-01
ToDate(epoch) == epoch \div SecondsPerDay

Abs(x) == IF x < 0 THEN -x ELSE x

CodeFreqCols == {"week", "additions", "deletions"}
CommitCols == {"week", "total"}
ContribCols == {"author_login", "a", "d", "c", "w"}
Logins == {"ann", "bob"}

EmptyFrame == [cols |-> {}, rows |-> <<>>]

\* contents a CSV file can have: weeks ascending and unique, additions >= 0,
\* deletions <= 0, as the statistics API delivers them
CodeFreqRows ==
    UNION {{[i \in 1..n |-> [week |-> WeekAt(i), additions |-> f[i][1], deletions |-> -f[i][2]]] :
              f \in [1..n -> (0..MaxVal) \X (0..MaxVal)]} : n \in 1..MaxRows}

CommitRows ==
    UNION {{[i \in 1..n |-> [week |-> WeekAt(i), total |-> f[i]]] :
              f \in [1..n -> 0..MaxVal]} : n \in 1..MaxRows}

ContribRows ==
    UNION {{[i \in 1..n |-> [author_login |-> f[i][1], a |-> f[i][2], d |-> f[i][3],
                             c |-> f[i][4], w |-> WeekAt(i)]] :
              f \in [1..n -> Logins \X (0..1) \X (0..1) \X (0..1)]} : n \in 1..MaxRows}

\* a file on disk: missing, zero bytes, header line only, rows, or rows under
\* a header that lacks the time column
Files(cols, rowSets, timeCol) ==
    {[kind |-> "missing", cols |-> {}, rows |-> <<>>],
     [kind |-> "zero_bytes", cols |-> {}, rows |-> <<>>],
     [kind |-> "header_only", cols |-> cols, rows |-> <<>>]}
    \cup {[kind |-> "rows", cols |-> cols, rows |-> r] : r \in rowSets}
    \cup {[kind |-> "no_time_column", cols |-> cols \ {timeCol}, rows |-> r] :
             r \in {x \in rowSets : Len(x) = 1}}

\* load_data: the frame returned
load_data(file) ==
    IF file.kind \in {"missing", "zero_bytes"} THEN EmptyFrame
    ELSE [cols |-> file.cols, rows |-> file.rows]

\* load_data: the st.error it makes
load_msgs(file) ==
    CASE file.kind = "missing" -> {"File not found"}
      [] file.kind = "zero_bytes" -> {"No data found in the CSV file."}
      [] file.rows = <<>> -> {"No data found in the CSV file."}
      [] OTHER -> {}

Column(rows, name) == [i \in 1..Len(rows) |-> rows[i][name]]

RECURSIVE cumsum(_)
\* Series.cumsum()
cumsum(col) ==
    IF col = <<>> THEN <<>>
    ELSE LET n == Len(col)
             head == cumsum(SubSeq(col, 1, n - 1))
         IN  Append(head, (IF n = 1 THEN 0 ELSE head[n - 1]) + col[n])

RECURSIVE SeqSum(_)
SeqSum(col) == IF col = <<>> THEN 0 ELSE col[1] + SeqSum(Tail(col))

SeqMin(col) == CHOOSE x \in {col[i] : i \in 1..Len(col)} : \A i \in 1..Len(col) : x <= col[i]
SeqMax(col) == CHOOSE x \in {col[i] : i \in 1..Len(col)} : \A i \in 1..Len(col) : x >= col[i]

InWindow(r, w) == r.week >= w[1] /\ r.week <= w[2]

\* code_freq_data[(week >= start_week) & (week <= end_week)]
FilterWeeks(rows, w) == SelectSeq(rows, LAMBDA r : InWindow(r, w))

\* the script run of main ends with an uncaught exception raised in tab t
AbortMain(t, e) ==
    /\ mpc' = "aborted"
    /\ mexc' = e
    /\ mfailed' = t

\* tab1, up to the date slider: load_data, week -> date, raw data view
Tab1Load ==
    /\ mpc = "start"
    /\ \E file \in Files(CodeFreqCols, CodeFreqRows, "week") :
          LET code_freq_data == load_data(file)
          IN  /\ mmsgs' = mmsgs \cup load_msgs(file)
              /\ IF "week" \notin code_freq_data.cols
                   THEN /\ AbortMain("code_frequency", "KeyError")
                        /\ frame' = code_freq_data
                        /\ UNCHANGED rawShown
                   ELSE /\ frame' = [code_freq_data EXCEPT !.rows =
                                       [i \in 1..Len(@) |-> [@[i] EXCEPT !.week = ToDate(@)]]]
                        /\ rawShown' = Column(code_freq_data.rows, "deletions")
                        /\ mpc' = "t1_slider"
                        /\ UNCHANGED <<mexc, mfailed>>
    /\ UNCHANGED <<window, filtered, areaChart, cumAdd, cumDel, metric, userList, userData, mrendered>>
    /\ UNCHANGED <<apiVars, chatVars>>

\* the charts of tab1 on the rows inside window w
Tab1Charts(w) ==
    LET filtered_data ==
            [i \in 1..Len(FilterWeeks(frame.rows, w)) |->
                [week |-> FilterWeeks(frame.rows, w)[i].week,
                 additions |-> FilterWeeks(frame.rows, w)[i].additions,
                 deletions |-> FilterWeeks(frame.rows, w)[i].deletions,
                 positive_deletions |-> Abs(FilterWeeks(frame.rows, w)[i].deletions)]]
    IN  /\ window' = w
        /\ filtered' = filtered_data
        /\ areaChart' = Column(filtered_data, "deletions")
        /\ cumAdd' = cumsum(Column(filtered_data, "additions"))
        /\ cumDel' = cumsum(Column(filtered_data, "deletions"))
        /\ mrendered' = mrendered \cup {"code_frequency"}
        /\ mpc' = "t2"
        /\ UNCHANGED <<mexc, mfailed>>

\* tab1 from the slider on: window, filter, area chart, cumulative sums, scatter chart
Tab1Slider ==
    /\ mpc = "t1_slider"
    /\ IF frame.rows = <<>>
         THEN \* min() and max() of an empty column are NaN: the slider either
              \* rejects them or hands them back, and then no row is selected
              \/ /\ AbortMain("code_frequency", "StreamlitAPIException")
                 /\ UNCHANGED <<window, filtered, areaChart, cumAdd, cumDel, mrendered>>
              \/ Tab1Charts(<<0, -1>>)
         ELSE LET min_week == SeqMin(Column(frame.rows, "week"))
                  max_week == SeqMax(Column(frame.rows, "week"))
              IN  \E start_week \in min_week..max_week : \E end_week \in start_week..max_week :
                     Tab1Charts(<<start_week, end_week>>)
    /\ UNCHANGED <<frame, rawShown, metric, userList, userData, mmsgs>>
    /\ UNCHANGED <<apiVars, chatVars>>

\* commit_activity_data["total"].pct_change().iloc[-1] * 100, then f"{weekly_change:.2f}%"
WeeklyChange(total) ==
    LET n == Len(total)
    IN  IF n = 1 THEN [kind |-> "nan", cents |-> 0]
        ELSE IF total[n - 1] = 0
               THEN (IF total[n] = 0 THEN [kind |-> "nan", cents |-> 0]
                                    ELSE [kind |-> "inf", cents |-> 0])
        ELSE [kind |-> "number",
              cents |-> (2 * 10000 * (total[n] - total[n - 1]) + total[n - 1])
                            \div (2 * total[n - 1])]

\* "with tab2:" starts: no later statement reads code_freq_data, the slider
\* values or tab1's filtered_data (tab3 rebinds the name), and tab1's charts
\* are complete; the model keeps them only while tab1 is the tab being run
LeaveTab1 ==
    /\ rawShown' = <<>>
    /\ window' = <<0, 0>>
    /\ filtered' = <<>>
    /\ areaChart' = <<>>
    /\ cumAdd' = <<>>
    /\ cumDel' = <<>>

\* tab2: load_data, week -> datetime, raw data view, the three metrics, bar chart
Tab2 ==
    /\ mpc = "t2"
    /\ \E file \in Files(CommitCols, CommitRows, "week") :
          LET commit_activity_data == load_data(file)
          IN  /\ mmsgs' = mmsgs \cup load_msgs(file)
              /\ frame' = commit_activity_data   \* week as a timestamp keeps the epoch second
              /\ IF "week" \notin commit_activity_data.cols
                   THEN AbortMain("commit_activity", "KeyError") /\ UNCHANGED <<metric, mrendered>>
                 ELSE IF commit_activity_data.rows = <<>>
                   THEN AbortMain("commit_activity", "IndexError") /\ UNCHANGED <<metric, mrendered>>
                 ELSE /\ metric' = WeeklyChange(Column(commit_activity_data.rows, "total"))
                      /\ mrendered' = mrendered \cup {"commit_activity"}
                      /\ mpc' = "t3"
                      /\ UNCHANGED <<mexc, mfailed>>
    /\ LeaveTab1
    /\ UNCHANGED <<userList, userData>>
    /\ UNCHANGED <<apiVars, chatVars>>

\* contributor_data.groupby("author_login")["total_activity"].sum()
ActivityOf(rows, login) ==
    SeqSum([i \in 1..Len(rows) |->
              IF rows[i].author_login = login THEN rows[i].a + rows[i].d + rows[i].c ELSE 0])

\* .sort_values(ascending=False).index.tolist(): the order of equal totals is not fixed
Rankings(rows) ==
    LET present == {rows[i].author_login : i \in 1..Len(rows)}
        n == Cardinality(present)
    IN  {s \in [1..n -> present] :
            /\ \A i, j \in 1..n : i # j => s[i] # s[j]
            /\ \A i, j \in 1..n : i < j => ActivityOf(rows, s[i]) >= ActivityOf(rows, s[j])}

\* tab3: load_data, rename, w -> datetime, total_activity, ranking, selectbox,
\* date slider, filter, plot and data editor
Tab3 ==
    /\ mpc = "t3"
    /\ \E file \in Files(ContribCols, ContribRows, "w") :
          LET contributor_data == load_data(file)
          IN  /\ mmsgs' = mmsgs \cup load_msgs(file)
              /\ frame' = contributor_data
              /\ IF "w" \notin contributor_data.cols
                   THEN AbortMain("contributors", "KeyError") /\ UNCHANGED <<userList, userData, mrendered>>
                 ELSE IF contributor_data.rows = <<>>
                   THEN \* selected_user is None and min() is NaT
                        /\ AbortMain("contributors", "StreamlitAPIException")
                        /\ UNCHANGED <<userList, userData, mrendered>>
                 ELSE \E ranking \in Rankings(contributor_data.rows) :
                      \E k \in 1..Len(ranking) :
                         LET user_data == SelectSeq(contributor_data.rows,
                                             LAMBDA r : r.author_login = ranking[k])
                             min_date == SeqMin(Column(user_data, "w"))
                             max_date == SeqMax(Column(user_data, "w"))
                         IN  \E start_date \in {min_date, max_date} :
                             \E end_date \in {d \in {min_date, max_date} : d >= start_date} :
                                /\ userList' = ranking
                                /\ userData' = SelectSeq(user_data,
                                                  LAMBDA r : r.w >= start_date /\ r.w <= end_date)
                                /\ mrendered' = mrendered \cup {"contributors"}
                                /\ mpc' = "done"
                                /\ UNCHANGED <<mexc, mfailed>>
    /\ UNCHANGED <<rawShown, window, filtered, areaChart, cumAdd, cumDel, metric>>
    /\ UNCHANGED <<apiVars, chatVars>>

NextCsv ==
    \/ Tab1Load
    \/ Tab1Slider
    \/ Tab2
    \/ Tab3

SpecCsv == Init /\ [][NextCsv]_vars

----------------------------------------------------------------------------
(* Properties of get_api_data *)

Last(q) == q[Len(q)]
AllBefore(q, code) == \A j \in 1..(Len(q) - 1) : q[j] = code

\* the exit get_api_data took, read from the st.error it made
Outcome ==
    CASE fmsg = "" -> "Payload"
      [] fmsg = MsgPermission -> "PermissionDenied"
      [] fmsg = MsgNotReady -> "NotReady"
      [] OTHER -> "UpstreamError"

Answered == fpc = "returned" /\ hist # <<>>

\* once the call has returned, it issues no request: hist stays, or a new call resets it
NoRequestAfterReturn == fpc = "returned" => (hist' = hist \/ hist' = <<>>)

\* C1: a call answered 202 on attempts 1..k-1 and 200 on attempt k returns the
\* JSON payload of that 200, has slept exactly k-1 times and issues no
\* request after it
C1_PayloadAfterPending ==
    /\ [](Answered /\ Last(hist) = 200 =>
            /\ AllBefore(hist, 202)
            /\ ret = resp
            /\ ret \in Payloads
            /\ waits = Len(hist) - 1)
    /\ [][Answered /\ Last(hist) = 200 => NoRequestAfterReturn]_vars

C1_Witness == Answered /\ hist = <<202, 202, 200>> /\ waits = 2 /\ ret = resp

\* C2: a status other than 200 and 202 ends the call at once: no sleep for it,
\* no further request; 403 gives the permission-denied exit, any other status
\* the failed-to-fetch exit
C2_FailFast ==
    /\ [](Answered /\ Last(hist) \notin {200, 202} =>
            /\ AllBefore(hist, 202)
            /\ waits = Len(hist) - 1
            /\ (Last(hist) = 403 =>
                   /\ Outcome = "PermissionDenied"
                   /\ ret = PermissionDeniedValue
                   /\ MsgPermission \in errs)
            /\ (Last(hist) # 403 =>
                   /\ Outcome = "UpstreamError"
                   /\ fmsg = MsgFailed(Last(hist))
                   /\ ret = NoneValue
                   /\ fmsg \in errs))
    /\ [][Answered /\ Last(hist) \notin {200, 202} => NoRequestAfterReturn]_vars

C2_Witness ==
    /\ Answered /\ hist = <<403>> /\ waits = 0
    /\ Outcome = "PermissionDenied"

\* requests and sleeps the call can still make
Remaining == 2 * (DefaultRetries - attempt) + (IF fpc = "loop" THEN 1 ELSE 0)

\* a step taken inside the loop ends the call or leaves less to do
FetchStepsTowardsEnd ==
    fpc \in {"loop", "sleep"} =>
        \/ fpc' \in {"returned", "raised"}
        \/ (fpc' \in {"loop", "sleep"} /\ Remaining' < Remaining)

\* C3: a call issues at most retries requests and every step of it brings it
\* closer to its end; answered 202 every time, it ends with the not-ready exit
C3_BoundedAttempts ==
    /\ [](Len(hist) <= DefaultRetries)
    /\ [](fpc = "returned" /\ Len(hist) = DefaultRetries /\ (\A j \in 1..Len(hist) : hist[j] = 202) =>
            /\ Outcome = "NotReady"
            /\ ret = NoneValue
            /\ MsgNotReady \in errs)
    /\ [][FetchStepsTowardsEnd]_vars

C3_Witness ==
    /\ fpc = "returned" /\ hist = <<202, 202, 202>>
    /\ Outcome = "NotReady"

\* C4: the value returned tells the three failure exits apart, and none of
\* them passes the caller's "if data:" / "if not repo_data" checks
C4_FailuresDistinguished ==
    (fpc = "returned" /\ Outcome \in FailureKinds) =>
        /\ ~Truthy(ret)
        /\ \A k \in FailureKinds \ {Outcome} : FailureValue(k) # ret

\* C5: a requests.get that raises ends the call with a transport failure
\* returned to the caller, not with an exception leaving get_api_data
C5_TransportWrapped ==
    exc = "ConnectionError" => (fpc = "returned" /\ ret = "Transport")

----------------------------------------------------------------------------
(* Properties of the CSV dashboard *)

NonDecreasing(col) == \A i \in 1..(Len(col) - 1) : col[i] <= col[i + 1]

Tab1Done == mpc = "t2"

\* C6: the cumulative additions and cumulative deletions charted by tab1 are
\* both non-decreasing along the series
C6_CumulativeMonotone ==
    Tab1Done => NonDecreasing(cumAdd) /\ NonDecreasing(cumDel)

\* C7: the deletions the area chart receives are the magnitudes abs(deletions),
\* the raw data view keeps the signed values
C7_ChartGetsMagnitudes ==
    Tab1Done =>
        /\ \A i \in 1..Len(areaChart) : areaChart[i] = Abs(filtered[i].deletions)
        /\ rawShown = Column(frame.rows, "deletions")

Tab2Ended == mpc = "t3" \/ (mpc = "aborted" /\ mfailed = "commit_activity")

\* C8: with fewer than 2 weekly totals the week-over-week change is shown as
\* not available, without an exception and without NaN; with 2 or more it is
\* (total[-1] - total[-2]) / total[-2] * 100
C8_ChangeNotAvailable ==
    Tab2Ended /\ "total" \in frame.cols /\ "week" \in frame.cols =>
        IF Len(frame.rows) < 2
          THEN mexc = "" /\ metric.kind = "not_available"
          ELSE mexc = "" /\ metric = WeeklyChange(Column(frame.rows, "total"))

\* C9: an empty frame from load_data (missing or empty CSV) gives an empty,
\* no-data panel: the code after the load raises nothing
C9_EmptyIsNotAnError ==
    (mpc # "start" /\ frame.rows = <<>>) => mexc = ""

----------------------------------------------------------------------------
(* Properties of a page run *)

PanelOrder == <<"views", "clones", "commit_activity", "code_frequency", "contributors", "engagement">>
PanelsAfter(p) ==
    {PanelOrder[j] : j \in {j \in 1..Len(PanelOrder) :
                               \E i \in 1..Len(PanelOrder) : PanelOrder[i] = p /\ i < j}}
Displayed == {m[1] : m \in rendered}

\* C10: an exception raised while a panel aggregates its payload stays in that
\* panel: the panels after it in the same run are still computed and rendered
C10_FailureConfined ==
    (apc = "aborted" /\ IsException(exc)) => PanelsAfter(failedAt) \subseteq Displayed

----------------------------------------------------------------------------
(* Properties of reruns *)

RunOver == pending = "" /\ apc \in {"done", "aborted"}

\* C11: last request wins, by repository: once the stale run and the run of
\* the latest request are over, every panel on the page shows data of the
\* repository requested last, whatever the stale fetch returned
C11_LastRequestWins ==
    RunOver => \A m \in rendered : m[3] = repo

\* a fetch for OtherRepo was requested during a backoff wait of a fetch for
\* the default repository, whose call later returned a payload; both are over
C11_Witness ==
    /\ RunOver /\ apc = "done"
    /\ repo = OtherRepo
    /\ pressedIn = "sleep"
    /\ dropped = "ok"
    /\ <<"commit_activity", "chart", OtherRepo>> \in rendered
    /\ cache[UrlOf(DefaultRepo, "repo")].ret = "ok"

----------------------------------------------------------------------------
(* Further properties of get_api_data and app *)

\* C12: sleeps happen only between attempts: a call that has returned has
\* slept fewer times than it has issued requests
C12_WaitsBetweenAttempts ==
    Answered => waits < Len(hist)

MetaUrl == UrlOf(repo, "repo")
MetaFailed == cache[CacheKey(MetaUrl)].ret \in {FailureValue(k) : k \in FailureKinds}

\* C13: when the repository-metadata fetch ended NotReady, PermissionDenied or
\* UpstreamError, app reports the access error and returns: no other endpoint
\* is fetched and no panel is given the failure value
C13_StopsOnAccessFailure ==
    (apc \notin {"idle", "meta"} /\ exc # "ConnectionError" /\ MetaFailed) =>
        /\ apc = "done"
        /\ MsgEnsure \in errs
        /\ url = MetaUrl
        /\ rendered = {}

ServedFromCache == fpc = "returned" /\ hist = <<>>

\* C14: only payloads are served from the cache: a call that returns without
\* asking the upstream returns a payload, never a stored failure
C14_OnlyPayloadsCached ==
    ServedFromCache => ret \in Payloads

----------------------------------------------------------------------------
(* Docs chat: the script of step_7.py, run again on every widget event *)

Greeting == [role |-> "assistant",
             content |-> "Ask me a question about Streamlit's open-source Python library!"]

Prompts == {"how do I cache?", "what is a fragment?"}
Answers == {"use st.cache_data", "a partial rerun"}

\* if "messages" not in st.session_state.keys(): st.session_state.messages = [greeting]
InitialisedMessages == IF hasMessages THEN messages ELSE <<Greeting>>

\* a script run without a prompt: st.chat_input returns None
ChatRerun ==
    /\ cpc = "idle"
    /\ hasMessages' = TRUE
    /\ messages' = InitialisedMessages
    /\ chatExc' = ""
    /\ UNCHANGED cpc
    /\ UNCHANGED <<apiVars, csvVars>>

\* a script run with a prompt, up to the call of chat_engine.chat(prompt)
ChatPrompt ==
    /\ cpc = "idle"
    /\ Len(InitialisedMessages) < MaxChat
    /\ \E prompt \in Prompts :
          messages' = Append(InitialisedMessages, [role |-> "user", content |-> prompt])
    /\ hasMessages' = TRUE
    /\ chatExc' = ""
    /\ cpc' = "chatting"
    /\ UNCHANGED <<apiVars, csvVars>>

\* chat_engine.chat returns: the answer is written and appended
ChatAnswer ==
    /\ cpc = "chatting"
    /\ \E answer \in Answers :
          messages' = Append(messages, [role |-> "assistant", content |-> answer])
    /\ cpc' = "idle"
    /\ UNCHANGED <<hasMessages, chatExc>>
    /\ UNCHANGED <<apiVars, csvVars>>

\* chat_engine.chat raises (network, rate limit): the script run ends there
ChatFail ==
    /\ cpc = "chatting"
    /\ chatExc' = "APIError"
    /\ cpc' = "idle"
    /\ UNCHANGED <<hasMessages, messages>>
    /\ UNCHANGED <<apiVars, csvVars>>

NextChat ==
    \/ ChatRerun
    \/ ChatPrompt
    \/ ChatAnswer
    \/ ChatFail

SpecChat == Init /\ [][NextChat]_vars

----------------------------------------------------------------------------
(* Properties of the chat history *)

RoleAt(i) == IF i % 2 = 1 THEN "assistant" ELSE "user"
Answered_n == Cardinality({i \in 1..Len(messages) : messages[i].role = "assistant"}) - 1

\* between script runs: the greeting first, roles alternating, every user
\* message followed by its answer
ChatWellFormed ==
    (hasMessages /\ cpc = "idle") =>
        /\ messages[1] = Greeting
        /\ \A i \in 1..Len(messages) : messages[i].role = RoleAt(i)
        /\ Len(messages) = 1 + 2 * Answered_n

\* entries are never changed or removed
ChatAppendOnly ==
    hasMessages =>
        /\ Len(messages') >= Len(messages)
        /\ SubSeq(messages', 1, Len(messages)) = messages

\* C15: the chat history is append-only and well formed after any sequence
\* of reruns and prompts, failed chat calls included
C15_ChatHistoryWellFormed ==
    /\ []ChatWellFormed
    /\ [][ChatAppendOnly]_vars

====
